---- MODULE Spec2Model ----
(***************************************************************************)
(* Topdf: the batch orchestrator (src/src/ui.rs, App::update / App::view)  *)
(* and the part of the converter (src/src/converter.rs) that decides the   *)
(* result of one conversion.                                                *)
(*                                                                         *)
(* The event loop owns the App state and handles one Message at a time.    *)
(* Messages published by widgets (AddFiles, RemoveFile, SelectOutputDir,   *)
(* ConvertAll) are handled against the state the view was built from, so   *)
(* each such action carries the condition under which view() offers the    *)
(* widget.  Messages produced by tasks (FilesSelected, OutputDirSelected,  *)
(* ConversionFinished) arrive whenever their task resolves.                *)
(***************************************************************************)
EXTENDS Naturals, Sequences, FiniteSets

(* ----------------------------- bounds --------------------------------- *)

\* Largest number of paths one FilesSelected message carries.
MaxSelect == 2

\* Largest number of picker dialogs (file or folder) open at the same time.
MaxDialogs == 1

(* ------------------------------ paths --------------------------------- *)

\* A PathBuf: parent directory, file stem, and extension as a sequence of
\* characters (<< >> when the path has no extension).
P_a_md == [parent |-> "/x", stem |-> "a", ext |-> <<"m", "d">>]

P_a_json == [parent |-> "/x", stem |-> "a", ext |-> <<"J", "s", "o", "n">>]

P_n_zzz == [parent |-> "/y", stem |-> "n", ext |-> <<"z", "z", "z">>]

\* The files the user can pick in the file dialog.
Paths == {P_a_md, P_a_json, P_n_zzz}

\* The folders the user can pick in the folder dialog.
Dirs == {"/out"}

\* Option<PathBuf>::None for output_dir.
NoDir == ""

(* ----------------------------- statuses ------------------------------- *)

Pending == [kind |-> "Pending", msg |-> ""]

Converting == [kind |-> "Converting", msg |-> ""]

Success == [kind |-> "Success", msg |-> ""]

Error(e) == [kind |-> "Error", msg |-> e]

FileEntry(p, s) == [path |-> p, status |-> s]

(* ------------------------- Result<(), String> -------------------------- *)

Ok == [ok |-> TRUE, msg |-> ""]

Err(e) == [ok |-> FALSE, msg |-> e]

(* ----------------------------- converter ------------------------------ *)

LowerChar(c) ==
    CASE c = "M" -> "m" [] c = "D" -> "d" [] c = "J" -> "j" [] c = "S" -> "s"
      [] c = "O" -> "o" [] c = "N" -> "n" [] c = "X" -> "x" [] c = "L" -> "l"
      [] c = "T" -> "t" [] c = "C" -> "c" [] c = "V" -> "v" [] c = "P" -> "p"
      [] c = "G" -> "g" [] c = "H" -> "h" [] c = "B" -> "b" [] c = "R" -> "r"
      [] c = "Y" -> "y" [] c = "Z" -> "z" [] c = "K" -> "k" [] c = "W" -> "w"
      [] c = "E" -> "e" [] c = "A" -> "a" [] c = "I" -> "i" [] c = "U" -> "u"
      [] c = "F" -> "f" [] c = "Q" -> "q"
      [] OTHER -> c

\* Variant: the extension is matched as spelled.
to_lowercase_id(s) == s

to_lowercase(s) == [k \in DOMAIN s |-> LowerChar(s[k])]

\* FileType::from_path: the kind of a path, by its lowercased extension.
from_path(path) ==
    LET e == to_lowercase(path.ext) IN
    IF e = <<"m", "d">> \/ e = <<"m", "a", "r", "k", "d", "o", "w", "n">> THEN "Markdown"
    ELSE IF e = <<"j", "s", "o", "n">> THEN "Json"
    ELSE IF e = <<"x", "m", "l">> THEN "Xml"
    ELSE IF e \in {<<"t", "x", "t">>, <<"r", "s">>, <<"p", "y">>, <<"j", "s">>,
                   <<"c">>, <<"c", "p", "p">>} THEN "Txt"
    ELSE IF e = <<"d", "o", "c", "x">> THEN "Docx"
    ELSE IF e = <<"h", "t", "m", "l">> \/ e = <<"h", "t", "m">> THEN "Html"
    ELSE IF e = <<"c", "s", "v">> THEN "Csv"
    ELSE IF e \in {<<"p", "n", "g">>, <<"j", "p", "g">>, <<"j", "p", "e", "g">>,
                   <<"b", "m", "p">>} THEN "Image"
    ELSE "Unknown"

\* What the file system answers to one conversion: whether the input can be
\* read as UTF-8 text (or opened, for DOCX and CSV) and whether the output
\* can be written.
FsAnswers == [readable : BOOLEAN, writable : BOOLEAN]

\* converter::convert: the result of converting `input` under answer `fs`.
convert(input, fs) ==
    LET file_type == from_path(input) IN
    IF file_type = "Docx" /\ ~fs.readable THEN Err("io error")
    ELSE IF file_type \notin {"Image", "Docx", "Csv"} /\ ~fs.readable
        THEN Err("Failed to read file")
    ELSE IF file_type = "Csv" /\ ~fs.readable THEN Err("io error")
    ELSE IF file_type = "Unknown" THEN Err("Unknown file type")
    ELSE IF ~fs.writable THEN Err("Failed to render PDF")
    ELSE Ok

(* ------------------------------- state -------------------------------- *)

VARIABLES
    files,            \* App.files: sequence of FileEntry
    output_dir,       \* App.output_dir: NoDir or a directory
    is_converting,    \* App.is_converting
    total_files,      \* App.total_files
    completed_files,  \* App.completed_files
    tasks,            \* conversion tasks spawned by ConvertAll, not yet handled
    handled,          \* history: the tasks of the latest batch whose completion
                      \* event was handled (index, input, what the worker did)
    file_dialogs,     \* open file pickers (AddFiles tasks not yet resolved)
    dir_dialogs,      \* open folder pickers (SelectOutputDir tasks not resolved)
    conv,             \* one call of converter::convert, stage by stage
    json,             \* one call of render_json
    md                \* one call of render_markdown, event by event

vars == <<files, output_dir, is_converting, total_files, completed_files,
          tasks, handled, file_dialogs, dir_dialogs, conv, json, md>>

\* The calls of the converter that are followed on their own.
calls == <<conv, json, md>>

\* No call is being followed.
NoCall == [pc |-> "none"]

app == <<files, output_dir, is_converting, total_files, completed_files>>

Indices(fs) == 0 .. (Len(fs) - 1)

\* Vec indexing is 0-based: fs.get(i).
Get(fs, i) == fs[i + 1]

\* The one-shot channel of a task: the worker thread is running, has sent
\* its result, or has dropped the sender without sending (panic).
Running == [st |-> "running", res |-> Ok]

Sent(r) == [st |-> "sent", res |-> r]

Dropped == [st |-> "dropped", res |-> Ok]

\* App::new.
Init ==
    /\ files = << >>
    /\ output_dir = NoDir
    /\ is_converting = FALSE
    /\ total_files = 0
    /\ completed_files = 0
    /\ tasks = {}
    /\ handled = {}
    /\ file_dialogs = 0
    /\ dir_dialogs = 0
    /\ conv = NoCall
    /\ json = NoCall
    /\ md = NoCall

(* ------------------------- helpers of update -------------------------- *)

\* Variant: only the most recently pushed entry is compared.
ContainsPath_last(fs, path) == fs # << >> /\ fs[Len(fs)].path = path

\* self.files.iter().any(|f| f.path == path)
ContainsPath(fs, path) == \E k \in DOMAIN fs : fs[k].path = path

\* The loop of Message::FilesSelected: push every path not yet listed.
RECURSIVE PushAll(_, _)
PushAll(fs, paths) ==
    IF paths = << >> THEN fs
    ELSE LET path == Head(paths) IN
         PushAll(IF ~ContainsPath(fs, path)
                     THEN Append(fs, FileEntry(path, Pending))
                     ELSE fs,
                 Tail(paths))

\* Vec::remove(index): the later entries shift down by one.
RemoveAt(fs, index) ==
    [k \in 1 .. (Len(fs) - 1) |-> IF k <= index THEN fs[k] ELSE fs[k + 1]]

\* Variant: only Pending entries are selected (Error entries not retried).
files_to_convert_pending(fs) ==
    {i \in Indices(fs) : Get(fs, i).status.kind = "Pending"}

\* Variant: every entry is selected (Success entries converted again).
files_to_convert_all(fs) == Indices(fs)

\* files_to_convert: the indices of the entries whose status is not Success.
files_to_convert(fs) == {i \in Indices(fs) : Get(fs, i).status.kind # "Success"}

\* Variant: the output name keeps the input's extension ("a.md.pdf").
OutputPath_ext(input, output_base) ==
    [dir |-> IF output_base # NoDir THEN output_base ELSE input.parent,
     name |-> <<input.stem, input.ext, "pdf">>]

\* output_base.unwrap_or_else(|| input_path.parent()).join("<stem>.pdf")
OutputPath(input, output_base) ==
    [dir |-> IF output_base # NoDir THEN output_base ELSE input.parent,
     name |-> <<input.stem, "pdf">>]

\* Variant: the task captures the position of i among the selected indices
\* instead of the index into files.
SpawnTask_pos(fs, i, output_base) ==
    [i |-> Cardinality({j \in Indices(fs) :
                          j < i /\ Get(fs, j).status.kind # "Success"}),
     input |-> Get(fs, i).path,
     output |-> OutputPath(Get(fs, i).path, output_base), chan |-> Running]

\* The task spawned for entry i: its thread has just been started.
SpawnTask(fs, i, output_base) ==
    [i |-> i, input |-> Get(fs, i).path,
     output |-> OutputPath(Get(fs, i).path, output_base), chan |-> Running]

\* Variant: every entry is marked Converting, selected or not.
MarkConverting_all(fs, selected) ==
    [k \in DOMAIN fs |-> FileEntry(fs[k].path, Converting)]

\* The statuses after the loop that marks every selected entry Converting.
MarkConverting(fs, selected) ==
    [k \in DOMAIN fs |->
        IF (k - 1) \in selected THEN FileEntry(fs[k].path, Converting) ELSE fs[k]]

\* Variant: the inner result of the worker is not inspected.
AwaitReply_flat(chan) ==
    IF chan.st = "sent" THEN Ok ELSE Err("Task cancelled or panicked")

\* `match rx.await`: what the task yields once its channel has resolved.
AwaitReply(chan) ==
    IF chan.st = "sent" THEN (IF chan.res.ok THEN Ok ELSE Err(chan.res.msg))
    ELSE Err("Task cancelled or panicked")

\* The status ConversionFinished gives the entry for a result.
StatusOf(result) == IF result.ok THEN Success ELSE Error(result.msg)

\* Variant: strict comparison.
BatchDone_gt(completed, total) == completed > total

\* Variant: the batch is declared done one event early.
BatchDone_early(completed, total) == completed + 1 >= total

\* self.completed_files >= self.total_files
BatchDone(completed, total) == completed >= total

\* Variant: the early return forgets the running batch.
convert_all_rejected_empty == files = << >>

\* The early return of ConvertAll: nothing listed, or a batch is running.
convert_all_rejected == files = << >> \/ is_converting

\* Variant: the remove button is always live.
remove_btn_always == TRUE

\* view(): the remove button publishes RemoveFile only while not converting.
remove_btn_enabled == ~is_converting

\* The lists of paths a file dialog can return (empty when cancelled).
RECURSIVE SeqsUpTo(_, _)
SeqsUpTo(S, n) ==
    IF n = 0 THEN {<< >>}
    ELSE LET shorter == SeqsUpTo(S, n - 1) IN
         shorter \cup {Append(q, x) : q \in shorter, x \in S}

Selections == SeqsUpTo(Paths, MaxSelect)

(* ------------------------------ actions ------------------------------- *)

\* Message::AddFiles: open a file picker; state is not touched.
AddFiles ==
    /\ file_dialogs + dir_dialogs < MaxDialogs
    /\ file_dialogs' = file_dialogs + 1
    /\ UNCHANGED <<app, tasks, handled, dir_dialogs, calls>>

\* Message::FilesSelected(paths): the picker resolved with `paths`.
FilesSelected(paths) ==
    /\ file_dialogs > 0
    /\ file_dialogs' = file_dialogs - 1
    /\ files' = PushAll(files, paths)
    /\ UNCHANGED <<output_dir, is_converting, total_files, completed_files,
                   tasks, handled, dir_dialogs, calls>>

\* Message::RemoveFile(index), published by the remove button of row index.
RemoveFile(index) ==
    /\ remove_btn_enabled
    /\ index \in Indices(files)
    /\ files' = (IF index < Len(files) THEN RemoveAt(files, index) ELSE files)
    /\ UNCHANGED <<output_dir, is_converting, total_files, completed_files,
                   tasks, handled, file_dialogs, dir_dialogs, calls>>

\* Message::SelectOutputDir: open a folder picker; state is not touched.
SelectOutputDir ==
    /\ file_dialogs + dir_dialogs < MaxDialogs
    /\ dir_dialogs' = dir_dialogs + 1
    /\ UNCHANGED <<app, tasks, handled, file_dialogs, calls>>

\* Message::OutputDirSelected(path): the folder picker resolved with a folder.
OutputDirSelected(path) ==
    /\ dir_dialogs > 0
    /\ dir_dialogs' = dir_dialogs - 1
    /\ output_dir' = path
    /\ UNCHANGED <<files, is_converting, total_files, completed_files,
                   tasks, handled, file_dialogs, calls>>

\* Message::None: the folder picker was cancelled.
NoneMsg ==
    /\ dir_dialogs > 0
    /\ dir_dialogs' = dir_dialogs - 1
    /\ UNCHANGED <<app, tasks, handled, file_dialogs, calls>>

\* Message::ConvertAll.
ConvertAll ==
    IF convert_all_rejected
    THEN UNCHANGED vars
    ELSE LET selected == files_to_convert(files) IN
         /\ completed_files' = 0
         /\ total_files' = Cardinality(selected)
         /\ handled' = {}
         /\ UNCHANGED <<output_dir, file_dialogs, dir_dialogs, calls>>
         /\ IF Cardinality(selected) = 0
            THEN /\ is_converting' = FALSE
                 /\ UNCHANGED <<files, tasks>>
            ELSE /\ is_converting' = TRUE
                 /\ files' = MarkConverting(files, selected)
                 /\ tasks' = tasks \cup
                        {SpawnTask(files, i, output_dir) : i \in selected}

\* The worker thread of task t returns from converter::convert and sends.
WorkerReturns(t, fs) ==
    /\ t \in tasks
    /\ t.chan.st = "running"
    /\ tasks' = (tasks \ {t}) \cup {[t EXCEPT !.chan = Sent(convert(t.input, fs))]}
    /\ UNCHANGED <<app, handled, file_dialogs, dir_dialogs, calls>>

\* The worker thread of task t panics: the sender is dropped unsent.
WorkerPanics(t) ==
    /\ t \in tasks
    /\ t.chan.st = "running"
    /\ tasks' = (tasks \ {t}) \cup {[t EXCEPT !.chan = Dropped]}
    /\ UNCHANGED <<app, handled, file_dialogs, dir_dialogs, calls>>

\* Message::ConversionFinished(t.i, result), once the channel of t resolved.
ConversionFinished(t) ==
    /\ t \in tasks
    /\ t.chan.st # "running"
    /\ LET index == t.i
           result == AwaitReply(t.chan)
       IN /\ completed_files' = completed_files + 1
          /\ files' = (IF index < Len(files)
                          THEN [files EXCEPT ![index + 1].status = StatusOf(result)]
                          ELSE files)
          /\ is_converting' = (IF BatchDone(completed_files + 1, total_files)
                                  THEN FALSE ELSE is_converting)
          /\ tasks' = tasks \ {t}
          /\ handled' = handled \cup {[i |-> index, input |-> t.input, chan |-> t.chan]}
    /\ UNCHANGED <<output_dir, total_files, file_dialogs, dir_dialogs, calls>>

Next ==
    \/ AddFiles
    \/ \E paths \in Selections : FilesSelected(paths)
    \/ \E index \in Indices(files) : RemoveFile(index)
    \/ SelectOutputDir
    \/ \E path \in Dirs : OutputDirSelected(path)
    \/ NoneMsg
    \/ ConvertAll
    \/ \E t \in tasks, fs \in FsAnswers : WorkerReturns(t, fs)
    \/ \E t \in tasks : WorkerPanics(t)
    \/ \E t \in tasks : ConversionFinished(t)

Spec == Init /\ [][Next]_vars

\* Some worker thread ends, by returning or by panicking.
WorkerEnds ==
    \/ \E t \in tasks, fs \in FsAnswers : WorkerReturns(t, fs)
    \/ \E t \in tasks : WorkerPanics(t)

\* The event loop handles some resolved task.
DeliverFinished == \E t \in tasks : ConversionFinished(t)

\* Every worker thread ends, and the event loop handles every resolved task.
FairSpec == Spec /\ WF_vars(WorkerEnds) /\ WF_vars(DeliverFinished)

(* ------------------------------ claims -------------------------------- *)

\* C1: in every reachable state no two entries of the files list have equal
\* paths, whatever was added, removed or converted before.
T_C1_NoDuplicatePaths ==
    \A j, k \in DOMAIN files : j # k => files[j].path # files[k].path

\* C1 witness: every path the user can pick is listed, and entries were added
\* both before and after a batch (so some add met already listed paths).
W_C1_AllListed ==
    /\ Len(files) = Cardinality(Paths)
    /\ \E k \in DOMAIN files : files[k].status = Success
    /\ \E k \in DOMAIN files : files[k].status = Pending
    /\ file_dialogs = 0

\* C2: in every reachable state completed_files <= total_files.
T_C2_CompletedAtMostTotal == completed_files <= total_files

\* C2 witness: a batch of at least two tasks, part of them handled.
W_C2_MidBatch ==
    /\ is_converting
    /\ completed_files >= 1
    /\ completed_files < total_files

\* C3: in every state between two handled messages, is_converting holds
\* exactly when completed_files < total_files.
T_C3_ConvertingIffIncomplete == is_converting <=> (completed_files < total_files)

\* C3 witness: a batch of several tasks has just ended.
W_C3_BatchEnded ==
    /\ ~is_converting
    /\ total_files >= 2
    /\ completed_files = total_files
    /\ Cardinality(handled) = total_files

\* A batch starts in this step / ends in this step.
BatchStarts == ~is_converting /\ is_converting'

BatchEnds == is_converting /\ ~is_converting'

\* The indices the latest batch has handled a completion event for.
HandledIndices(h) == {x.i : x \in h}

\* C4 as stated: at batch end every entry of the files list has status
\* Success or Error, whatever was handled while the batch was running.
CE_C4_AllTerminalAtBatchEnd ==
    [][BatchEnds =>
        \A k \in DOMAIN files' : files'[k].status.kind \in {"Success", "Error"}]_vars

\* C4 amended: at batch end no entry has status Converting; every entry the
\* batch selected has status Success or Error, and every other entry has
\* status Success (skipped) or Pending (added while the batch was running).
T_C4_NoneConvertingAtBatchEnd ==
    [][BatchEnds =>
        \A k \in DOMAIN files' :
            IF (k - 1) \in HandledIndices(handled')
                THEN files'[k].status.kind \in {"Success", "Error"}
                ELSE files'[k].status.kind \in {"Success", "Pending"}]_vars

\* C4 witness: a batch has ended (all its events handled, nothing started
\* since) and the list holds a converted entry followed by a Pending one.
W_C4_EndedWithPending ==
    /\ ~is_converting
    /\ total_files >= 1
    /\ Cardinality(handled) = total_files
    /\ \E k \in DOMAIN files :
          /\ (k - 1) \notin HandledIndices(handled)
          /\ files[k].status = Pending
    /\ \E k \in DOMAIN files : files[k].status.kind = "Error"

\* C5: in every reachable state an entry has status Converting only if a
\* task spawned for that entry (its index, its path) has not been handled.
T_C5_ConvertingHasTask ==
    \A k \in DOMAIN files :
        files[k].status = Converting =>
            \E t \in tasks : t.i = k - 1 /\ t.input = files[k].path

\* C5 witness: in a running batch one entry is still Converting while the
\* event of another has been handled, next to an entry the batch skipped.
W_C5_PartlyHandled ==
    /\ is_converting
    /\ handled # {}
    /\ \E k \in DOMAIN files : files[k].status = Converting
    /\ \E k \in DOMAIN files :
          /\ (k - 1) \notin HandledIndices(handled)
          /\ files[k].status = Success

\* C6: when ConvertAll starts a batch, exactly the entries whose status is
\* not Success get a task and become Converting, Success entries are left
\* alone, total_files is the number of selected entries, completed_files 0.
T_C6_BatchSelectsNonSuccess ==
    [][BatchStarts =>
        LET sel == {k \in DOMAIN files : files[k].status # Success} IN
        /\ Len(files') = Len(files)
        /\ \A k \in DOMAIN files :
              /\ files'[k].path = files[k].path
              /\ files'[k].status = (IF k \in sel THEN Converting ELSE Success)
        /\ {t.i + 1 : t \in tasks'} = sel
        /\ Cardinality(tasks') = Cardinality(sel)
        /\ \A t \in tasks' : t.chan = Running /\ t.input = files[t.i + 1].path
        /\ total_files' = Cardinality(sel)
        /\ completed_files' = 0]_vars

\* C6 witness: a batch has just started over a list that holds a Success
\* entry (skipped) and selected entries, none handled yet.
W_C6_RetryStarted ==
    /\ is_converting
    /\ completed_files = 0
    /\ total_files >= 2
    /\ total_files < Len(files)
    /\ \E k \in DOMAIN files : files[k].status = Success
    /\ \A t \in tasks : t.chan = Running

\* No entry has status Pending or Error.
NoPendingOrError ==
    \A k \in DOMAIN files : files[k].status.kind \notin {"Pending", "Error"}

\* C7 as stated: ConvertAll handled while is_converting, or while no entry
\* is Pending or Error, spawns no task and leaves files, the counters,
\* is_converting and output_dir unchanged.
CE_C7_NoOpKeepsCounters ==
    [][(ConvertAll /\ (is_converting \/ NoPendingOrError)) =>
        UNCHANGED <<files, total_files, completed_files, is_converting,
                    output_dir, tasks>>]_vars

\* C7 amended: in those cases ConvertAll spawns no task and leaves files,
\* is_converting and output_dir unchanged; total_files and completed_files
\* are unchanged when is_converting or the list is empty, and both become 0
\* when the list is not empty and no batch is running.
T_C7_NoOpResetsCounters ==
    [][(ConvertAll /\ (is_converting \/ NoPendingOrError)) =>
        /\ UNCHANGED <<files, is_converting, output_dir, tasks>>
        /\ IF is_converting \/ files = << >>
              THEN UNCHANGED <<total_files, completed_files>>
              ELSE total_files' = 0 /\ completed_files' = 0]_vars

\* C7 witness: every listed entry is Success and both counters are 0, which
\* only a ConvertAll over an all-Success list produces.
W_C7_CountersReset ==
    /\ ~is_converting
    /\ files # << >>
    /\ \A k \in DOMAIN files : files[k].status = Success
    /\ total_files = 0
    /\ completed_files = 0

\* What the worker of a handled task did, as the status its entry must show.
StatusFor(chan) ==
    IF chan.st = "sent"
        THEN (IF chan.res.ok THEN Success ELSE Error(chan.res.msg))
        ELSE Error("Task cancelled or panicked")

T_C9_FailuresDoNotAbort ==
    [][BatchEnds =>
        /\ Cardinality(handled') = total_files'
        /\ Cardinality(HandledIndices(handled')) = total_files'
        /\ completed_files' = total_files'
        /\ tasks' = {}
        /\ \A h \in handled' :
              /\ h.i < Len(files')
              /\ Get(files', h.i).path = h.input
              /\ Get(files', h.i).status = StatusFor(h.chan)]_vars

\* C9 witness: a batch of three has ended with the second conversion failed
\* on an unreadable input and the other two succeeded.
W_C9_SuccessErrorSuccess ==
    /\ ~is_converting
    /\ total_files = 3
    /\ completed_files = 3
    /\ Cardinality(handled) = 3
    /\ Len(files) = 3
    /\ files[1].status = Success
    /\ files[2].status = Error("Failed to read file")
    /\ files[3].status = Success

\* C10: under FairSpec every started batch ends (is_converting leads to
\* ~is_converting); every handled completion event is counted once; and the
\* event of a task whose worker panicked sets its entry to
\* Error("Task cancelled or panicked").
T_C10_BatchEnds ==
    /\ is_converting ~> ~is_converting
    /\ [](completed_files = Cardinality(handled))
    /\ [][\A h \in handled' \ handled :
            h.chan.st = "dropped" =>
                Get(files', h.i).status = Error("Task cancelled or panicked")]_vars

\* C10 witness: a batch has ended in which one worker panicked and another
\* returned.
W_C10_EndedAfterPanic ==
    /\ ~is_converting
    /\ total_files >= 2
    /\ Cardinality(handled) = total_files
    /\ \E h \in handled :
          /\ h.chan.st = "dropped"
          /\ Get(files, h.i).status = Error("Task cancelled or panicked")
    /\ \E h \in handled : h.chan.st = "sent"

\* C11 as stated: the workers of one batch that run at the same time write
\* to pairwise distinct output paths.
CE_C11_DistinctOutputs ==
    \A t1, t2 \in tasks :
        (t1 # t2 /\ t1.chan = Running /\ t2.chan = Running) =>
            t1.output # t2.output

\* C11 amended: the output of input X/name.ext is <output_dir or X>/name.pdf,
\* so two tasks of one batch target the same output path exactly when their
\* inputs have the same stem and either output_dir is set or they have the
\* same parent; all other pairs write to distinct files.
T_C11_OutputsCollideOnStem ==
    [][BatchStarts =>
        /\ \A t \in tasks' :
              /\ t.output.dir =
                    (IF output_dir # NoDir THEN output_dir ELSE t.input.parent)
              /\ t.output.name = <<t.input.stem, "pdf">>
        /\ \A t1, t2 \in tasks' :
              (t1.output = t2.output) <=>
                  /\ t1.input.stem = t2.input.stem
                  /\ (output_dir # NoDir \/ t1.input.parent = t2.input.parent)]_vars

\* C11 witness: two running workers of one batch with distinct inputs target
\* the same output path, and a third targets another one.
W_C11_TwoWorkersOneOutput ==
    /\ is_converting
    /\ \E t1, t2, t3 \in tasks :
          /\ t1.input # t2.input
          /\ t1.output = t2.output
          /\ t3.output # t1.output
          /\ t1.chan = Running /\ t2.chan = Running /\ t3.chan = Running

\* C12: a conversion whose input classifies as Unknown always fails with
\* "Unknown file type", whatever the file system answers (the input missing,
\* unreadable or not UTF-8), and its entry becomes Error("Unknown file type").
CE_C12_UnknownAlwaysUnsupported ==
    /\ \A t \in tasks :
          (from_path(t.input) = "Unknown" /\ t.chan.st = "sent") =>
              t.chan.res = Err("Unknown file type")
    /\ \A k \in DOMAIN files :
          (from_path(files[k].path) = "Unknown" /\ files[k].status.kind = "Error") =>
              files[k].status.msg \in {"Unknown file type", "Task cancelled or panicked"}

\* C16: completion events may be handled in any order, interleaved with
\* adds and output-directory choices: each event changes only the entry of
\* its originating index (to the outcome of that entry's own conversion) and
\* counts once, so at batch end the statuses, the counters and is_converting
\* are determined by the batch and the per-file results alone.
T_C16_OrderIndependent ==
    [][/\ \A h \in handled' \ handled :
             /\ h.i < Len(files)
             /\ Len(files') = Len(files)
             /\ Get(files, h.i) = FileEntry(h.input, Converting)
             /\ Get(files', h.i) = FileEntry(h.input, StatusFor(h.chan))
             /\ \A k \in DOMAIN files : k # h.i + 1 => files'[k] = files[k]
             /\ completed_files' = completed_files + 1
             /\ UNCHANGED <<total_files, output_dir>>
       /\ BatchEnds =>
             /\ \A h \in handled' :
                   Get(files', h.i) = FileEntry(h.input, StatusFor(h.chan))
             /\ \A k \in DOMAIN files' :
                   (k - 1) \notin HandledIndices(handled') =>
                       files'[k].status \in {Success, Pending}
             /\ completed_files' = Cardinality(handled')
             /\ total_files' = Cardinality(handled')]_vars

\* C16 witness: in a running batch the event of a later entry was handled
\* before that of an earlier one, an entry was added meanwhile (it is
\* Pending) and the output directory was chosen after the tasks were spawned.
W_C16_OutOfOrder ==
    /\ is_converting
    /\ \E h \in handled, t \in tasks : h.i > t.i /\ t.output.dir # output_dir
    /\ output_dir # NoDir
    /\ \E k \in DOMAIN files : files[k].status = Pending

\* C18: in every reachable state the number of spawned tasks whose completion
\* event has not been handled is total_files - completed_files; a batch
\* starts with no task of an earlier batch left and ends having handled
\* exactly total_files events.
T_C18_InFlightIsRemainder ==
    /\ [](Cardinality(tasks) + completed_files = total_files)
    /\ [][BatchStarts => tasks = {}]_vars
    /\ [][BatchEnds => (tasks' = {} /\ Cardinality(handled') = total_files')]_vars

\* C18 witness: a later batch (an entry converted by an earlier one is
\* skipped) is running with events both handled and outstanding.
W_C18_SecondBatchRunning ==
    /\ is_converting
    /\ completed_files >= 1
    /\ Cardinality(tasks) >= 1
    /\ \E k \in DOMAIN files :
          (k - 1) \notin HandledIndices(handled) /\ files[k].status = Success

(* ------------------ converter::convert, stage by stage ----------------- *)

\* The upper-case spelling of a letter, to build the inputs.
UpperChar(c) ==
    CASE c = "a" -> "A" [] c = "b" -> "B" [] c = "c" -> "C" [] c = "d" -> "D"
      [] c = "e" -> "E" [] c = "f" -> "F" [] c = "g" -> "G" [] c = "h" -> "H"
      [] c = "i" -> "I" [] c = "j" -> "J" [] c = "k" -> "K" [] c = "l" -> "L"
      [] c = "m" -> "M" [] c = "n" -> "N" [] c = "o" -> "O" [] c = "p" -> "P"
      [] c = "q" -> "Q" [] c = "r" -> "R" [] c = "s" -> "S" [] c = "t" -> "T"
      [] c = "u" -> "U" [] c = "v" -> "V" [] c = "w" -> "W" [] c = "x" -> "X"
      [] c = "y" -> "Y" [] c = "z" -> "Z"
      [] OTHER -> c

\* The extensions of each kind, in lower case, as section 4.1 lists them.
MarkdownExts == {<<"m", "d">>, <<"m", "a", "r", "k", "d", "o", "w", "n">>}

JsonExts == {<<"j", "s", "o", "n">>}

XmlExts == {<<"x", "m", "l">>}

TextExts == {<<"t", "x", "t">>, <<"r", "s">>, <<"p", "y">>, <<"j", "s">>, <<"c">>,
             <<"c", "p", "p">>}

DocxExts == {<<"d", "o", "c", "x">>}

HtmlExts == {<<"h", "t", "m", "l">>, <<"h", "t", "m">>}

CsvExts == {<<"c", "s", "v">>}

ImageExts == {<<"p", "n", "g">>, <<"j", "p", "g">>, <<"j", "p", "e", "g">>,
              <<"b", "m", "p">>}

\* Other extensions (those the picker offers but no kind covers, near misses
\* of the listed ones) and no extension at all.
OtherExts == {<< >>, <<"y", "a", "m", "l">>, <<"y", "m", "l">>, <<"t", "o", "m", "l">>,
              <<"x", "l", "s", "x">>, <<"x", "l", "s">>, <<"m">>, <<"m", "d", "x">>,
              <<"p", "d", "f">>, <<"d", "o", "c">>, <<"m", "d", "1">>}

BaseExts ==
    MarkdownExts \cup JsonExts \cup XmlExts \cup TextExts \cup DocxExts
        \cup HtmlExts \cup CsvExts \cup ImageExts \cup OtherExts

\* The kind section 4.1 gives a lower-case extension.
KindOf(base) ==
    IF base \in MarkdownExts THEN "Markdown"
    ELSE IF base \in JsonExts THEN "Json"
    ELSE IF base \in XmlExts THEN "Xml"
    ELSE IF base \in TextExts THEN "Txt"
    ELSE IF base \in DocxExts THEN "Docx"
    ELSE IF base \in HtmlExts THEN "Html"
    ELSE IF base \in CsvExts THEN "Csv"
    ELSE IF base \in ImageExts THEN "Image"
    ELSE "Unknown"

\* The spellings of an extension that differ only in letter case: as is,
\* all upper case, first letter upper case, last letter upper case.
Spellings(base) ==
    { base,
      [k \in DOMAIN base |-> UpperChar(base[k])],
      [k \in DOMAIN base |-> IF k = 1 THEN UpperChar(base[k]) ELSE base[k]],
      [k \in DOMAIN base |-> IF k = Len(base) THEN UpperChar(base[k]) ELSE base[k]] }

\* The stems of the inputs (one spelled like an extension).
Stems == {"f", "md"}

\* The content stage of convert: Image and Csv read nothing, Docx goes
\* through read_docx, every other kind through fs::read_to_string.
ExtractResult(file_type, fs) ==
    IF file_type \in {"Image", "Csv"} THEN Ok
    ELSE IF file_type = "Docx" THEN (IF fs.readable THEN Ok ELSE Err("io error"))
    ELSE IF fs.readable THEN Ok ELSE Err("Failed to read file")

\* Variant: the Unknown arm logs the message and falls through.
RenderResult_log(file_type, fs) ==
    IF file_type = "Csv" /\ ~fs.readable THEN Err("io error") ELSE Ok

\* The render stage of convert: render_csv opens the file, the Unknown arm
\* returns the error, the other renderers do not fail.
RenderResult(file_type, fs) ==
    IF file_type = "Csv" /\ ~fs.readable THEN Err("io error")
    ELSE IF file_type = "Unknown" THEN Err("Unknown file type")
    ELSE Ok

\* doc.render_to_file(output).context("Failed to render PDF")
WriteResult(fs) == IF fs.writable THEN Ok ELSE Err("Failed to render PDF")

\* The calls of convert that are followed: every input, every answer.
ConvCalls ==
    { [pc |-> "start", base |-> b,
       input |-> [parent |-> "/x", stem |-> st, ext |-> e],
       fs |-> f, file_type |-> "", result |-> Ok, write_called |-> FALSE] :
         b \in BaseExts, e \in UNION {Spellings(x) : x \in BaseExts},
         st \in Stems, f \in FsAnswers }

ConvInit ==
    /\ files = << >>
    /\ output_dir = NoDir
    /\ is_converting = FALSE
    /\ total_files = 0
    /\ completed_files = 0
    /\ tasks = {}
    /\ handled = {}
    /\ file_dialogs = 0
    /\ dir_dialogs = 0
    /\ conv \in {c \in ConvCalls : c.input.ext \in Spellings(c.base)}
    /\ json = NoCall
    /\ md = NoCall

\* let file_type = FileType::from_path(input);
ConvClassify ==
    /\ conv.pc = "start"
    /\ conv' = [conv EXCEPT !.pc = "extract", !.file_type = from_path(conv.input)]
    /\ UNCHANGED <<app, tasks, handled, file_dialogs, dir_dialogs, json, md>>

\* let content = match file_type { ... };
ConvExtract ==
    /\ conv.pc = "extract"
    /\ LET r == ExtractResult(conv.file_type, conv.fs) IN
       conv' = IF r.ok THEN [conv EXCEPT !.pc = "render"]
                       ELSE [conv EXCEPT !.pc = "done", !.result = r]
    /\ UNCHANGED <<app, tasks, handled, file_dialogs, dir_dialogs, json, md>>

\* match file_type { ... render_*(..) ... }
ConvRender ==
    /\ conv.pc = "render"
    /\ LET r == RenderResult(conv.file_type, conv.fs) IN
       conv' = IF r.ok THEN [conv EXCEPT !.pc = "write"]
                       ELSE [conv EXCEPT !.pc = "done", !.result = r]
    /\ UNCHANGED <<app, tasks, handled, file_dialogs, dir_dialogs, json, md>>

\* doc.render_to_file(output)?; Ok(())
ConvWrite ==
    /\ conv.pc = "write"
    /\ conv' = [conv EXCEPT !.pc = "done", !.write_called = TRUE,
                            !.result = WriteResult(conv.fs)]
    /\ UNCHANGED <<app, tasks, handled, file_dialogs, dir_dialogs, json, md>>

ConvNext == ConvClassify \/ ConvExtract \/ ConvRender \/ ConvWrite

ConvSpec == ConvInit /\ [][ConvNext]_vars

\* The stages agree with convert, the function the workers apply.
ConvAgrees == conv.pc = "done" => conv.result = convert(conv.input, conv.fs)

\* C13: a conversion of an input of kind Unknown never reaches the
\* render-to-file step, and ends with an error.
T_C13_UnknownNeverWrites ==
    (conv.pc # "start" /\ conv.file_type = "Unknown") =>
        /\ ~conv.write_called
        /\ conv.pc # "write"
        /\ conv.pc = "done" => ~conv.result.ok

\* C13 witness: a readable input with an unknown extension and a writable
\* output: the conversion has ended with "Unknown file type", nothing written.
W_C13_UnknownReadable ==
    /\ conv.pc = "done"
    /\ conv.file_type = "Unknown"
    /\ conv.fs.readable /\ conv.fs.writable
    /\ conv.result = Err("Unknown file type")
    /\ ~conv.write_called

\* C14: the kind from_path gives a path is the kind section 4.1 gives the
\* lower-case spelling of its extension, whatever the letter case, the stem
\* or the file system; other extensions and no extension give Unknown.
T_C14_ClassifierByLowercasedExt ==
    conv.pc # "start" => conv.file_type = KindOf(conv.base)

\* C14 witness: an extension spelled with an upper-case letter has been
\* classified as an image.
W_C14_MixedCaseClassified ==
    /\ conv.pc # "start"
    /\ conv.input.ext # conv.base
    /\ conv.file_type = "Image"

(* ----------------------------- render_json ---------------------------- *)

\* Longest content, in lexemes, render_json is followed on.
MaxJsonLen == 3

\* A content is a sequence of lexemes; it stands for their concatenation.
JsonLexemes == {" ", "\n", "null", "1", "[", "]", ","}

JsonContents == SeqsUpTo(JsonLexemes, MaxJsonLen)

\* serde_json::Value, as far as these lexemes build it: Null, a number
\* (n digits "1") and an array.
JNull == [t |-> "null", n |-> 0, items |-> << >>]

JNum(n) == [t |-> "num", n |-> n, items |-> << >>]

JArr(items) == [t |-> "arr", n |-> 0, items |-> items]

\* The first position at or after p that holds no JSON whitespace.
RECURSIVE SkipWs(_, _)
SkipWs(s, p) ==
    IF p <= Len(s) /\ s[p] \in {" ", "\n"} THEN SkipWs(s, p + 1) ELSE p

\* The first position at or after p that holds no digit.
RECURSIVE DigitsEnd(_, _)
DigitsEnd(s, p) == IF p <= Len(s) /\ s[p] = "1" THEN DigitsEnd(s, p + 1) ELSE p

ParseFail == [ok |-> FALSE, val |-> JNull, next |-> 0]

ParseOk(v, next) == [ok |-> TRUE, val |-> v, next |-> next]

\* The recursive-descent parser of serde_json: one value from position p0,
\* and the items of an array after its "[" or a ",".
RECURSIVE ParseValue(_, _), ParseItems(_, _, _)
ParseValue(s, p0) ==
    LET p == SkipWs(s, p0) IN
    IF p > Len(s) THEN ParseFail
    ELSE IF s[p] = "null" THEN ParseOk(JNull, p + 1)
    ELSE IF s[p] = "1" THEN ParseOk(JNum(DigitsEnd(s, p) - p), DigitsEnd(s, p))
    ELSE IF s[p] = "["
        THEN LET q == SkipWs(s, p + 1) IN
             IF q <= Len(s) /\ s[q] = "]" THEN ParseOk(JArr(<< >>), q + 1)
             ELSE ParseItems(s, p + 1, << >>)
    ELSE ParseFail

ParseItems(s, p, acc) ==
    LET r == ParseValue(s, p) IN
    IF ~r.ok THEN ParseFail
    ELSE LET q == SkipWs(s, r.next) IN
         IF q > Len(s) THEN ParseFail
         ELSE IF s[q] = "," THEN ParseItems(s, q + 1, Append(acc, r.val))
         ELSE IF s[q] = "]" THEN ParseOk(JArr(Append(acc, r.val)), q + 1)
         ELSE ParseFail

\* serde_json::from_str: one value, then only whitespace up to the end.
from_str(s) ==
    LET r == ParseValue(s, 1) IN
    IF r.ok /\ SkipWs(s, r.next) > Len(s) THEN [ok |-> TRUE, val |-> r.val]
    ELSE [ok |-> FALSE, val |-> JNull]

\* n copies of lexeme x.
RECURSIVE Repeat(_, _)
Repeat(x, n) == IF n = 0 THEN << >> ELSE <<x>> \o Repeat(x, n - 1)

\* serde_json::to_string_pretty: two-space indentation, one item per line.
RECURSIVE to_string_pretty(_, _), PrettyItems(_, _)
to_string_pretty(v, level) ==
    IF v.t = "null" THEN <<"null">>
    ELSE IF v.t = "num" THEN Repeat("1", v.n)
    ELSE IF v.items = << >> THEN <<"[", "]">>
    ELSE <<"[", "\n">> \o PrettyItems(v.items, level + 1)
            \o <<"\n">> \o Repeat("  ", level) \o <<"]">>

PrettyItems(items, level) ==
    Repeat("  ", level) \o to_string_pretty(Head(items), level)
        \o (IF Len(items) = 1 THEN << >>
            ELSE <<",", "\n">> \o PrettyItems(Tail(items), level))

\* str::lines: the pieces between line feeds; a final line feed ends the
\* last line and starts no empty one.
RECURSIVE LinesFrom(_, _)
LinesFrom(s, cur) ==
    IF s = << >> THEN (IF cur = << >> THEN << >> ELSE <<cur>>)
    ELSE IF Head(s) = "\n" THEN <<cur>> \o LinesFrom(Tail(s), << >>)
    ELSE LinesFrom(Tail(s), Append(cur, Head(s)))

Lines(s) == LinesFrom(s, << >>)

\* The elements pushed to the document.
Paragraph(text, style) == [kind |-> "paragraph", text |-> text, style |-> style]

Break(height) == [kind |-> "break", text |-> << >>, style |-> height]

\* One paragraph of the given style per line.
ParagraphPerLine(lines, style) ==
    [k \in DOMAIN lines |-> Paragraph(lines[k], style)]

\* render_json: the elements pushed for `content`.
render_json(content) ==
    LET parsed == from_str(content)
        v == IF parsed.ok THEN parsed.val ELSE JNull
        pretty == IF v = JNull THEN content ELSE to_string_pretty(v, 0)
    IN <<Paragraph(<<"JSON Content:">>, "bold"), Break("1.0")>>
           \o ParagraphPerLine(Lines(pretty), "size 10")

JsonInit ==
    /\ files = << >>
    /\ output_dir = NoDir
    /\ is_converting = FALSE
    /\ total_files = 0
    /\ completed_files = 0
    /\ tasks = {}
    /\ handled = {}
    /\ file_dialogs = 0
    /\ dir_dialogs = 0
    /\ conv = NoCall
    /\ json \in {[pc |-> "start", content |-> c, doc |-> << >>] : c \in JsonContents}
    /\ md = NoCall

\* FileType::Json => render_json(&content, &mut doc)?
JsonRender ==
    /\ json.pc = "start"
    /\ json' = [json EXCEPT !.pc = "done", !.doc = render_json(json.content)]
    /\ UNCHANGED <<app, tasks, handled, file_dialogs, dir_dialogs, conv, md>>

JsonNext == JsonRender

JsonSpec == JsonInit /\ [][JsonNext]_vars

\* C15: render_json pushes the bold header "JSON Content:" and a 1.0 break,
\* then at code size the lines of the pretty-printed value when the content
\* parses as JSON (any value), and the lines of the content itself when not.
CE_C15_PrettyWheneverParsed ==
    json.pc = "done" =>
        json.doc =
            <<Paragraph(<<"JSON Content:">>, "bold"), Break("1.0")>>
                \o ParagraphPerLine(
                       Lines(IF from_str(json.content).ok
                                 THEN to_string_pretty(from_str(json.content).val, 0)
                                 ELSE json.content),
                       "size 10")

(* --------------------------- render_markdown --------------------------- *)

\* Longest event stream render_markdown is followed on.
MaxEvents == 6

\* The content of the k-th event, when it is a Text or Code event.
TextNames == <<"t1", "t2", "t3", "t4", "t5", "t6", "t7", "t8">>

\* Tags whose Start clears the buffer and whose End emits it.
BlockTags == {"Paragraph", "H1", "H2", "H3", "CodeBlock"}

\* Tags the renderer ignores (the `_ => {}` arm): an item of a tight list
\* (inline content directly inside), an item of a loose list (blocks
\* inside), an emphasis.
IgnoredTags == {"Item", "LooseItem", "Emphasis"}

\* The innermost open tag ("" at top level).
Top(stack) == IF stack = << >> THEN "" ELSE stack[Len(stack)]

\* What the parser can open inside `top`: blocks and list items at top
\* level and in the items of a loose list; nested items and code blocks in
\* the items of a tight list; emphasis in inline content.
CanStart(top, tag) ==
    IF top \in {"", "LooseItem"} THEN tag \in BlockTags \cup {"Item", "LooseItem"}
    ELSE IF top = "Item" THEN tag \in {"Item", "CodeBlock", "Emphasis"}
    ELSE IF top \in {"Paragraph", "H1", "H2", "H3"} THEN tag = "Emphasis"
    ELSE FALSE

\* Where the parser yields Text: in paragraphs, headings, code blocks,
\* emphasis, and directly in the items of a tight list.
CanText(top) == top \notin {"", "LooseItem"}

\* Where the parser yields inline code and breaks.
CanInline(top) == top \in {"Paragraph", "H1", "H2", "H3", "Item", "Emphasis"}

\* The font size of a heading.
HeadingStyle(tag) ==
    IF tag = "H1" THEN "size 20 bold"
    ELSE IF tag = "H2" THEN "size 18 bold"
    ELSE "size 14 bold"

\* The calls of render_markdown start with an empty buffer and document.
MdStartCall ==
    [pc |-> "run", stack |-> << >>, buf |-> << >>, doc |-> << >>, n |-> 0,
     texts |-> {}]

MdInit ==
    /\ files = << >>
    /\ output_dir = NoDir
    /\ is_converting = FALSE
    /\ total_files = 0
    /\ completed_files = 0
    /\ tasks = {}
    /\ handled = {}
    /\ file_dialogs = 0
    /\ dir_dialogs = 0
    /\ conv = NoCall
    /\ json = NoCall
    /\ md = MdStartCall

\* The stream can still be closed within MaxEvents after `more` more events.
Room(more) == md.n + more + Len(md.stack) <= MaxEvents

\* Event::Text(text) => current_text.push_str(&text)
MdText ==
    /\ md.pc = "run" /\ CanText(Top(md.stack)) /\ Room(1)
    /\ md' = [md EXCEPT !.n = @ + 1,
                        !.buf = Append(@, TextNames[md.n + 1]),
                        !.texts = @ \cup {TextNames[md.n + 1]}]
    /\ UNCHANGED <<app, tasks, handled, file_dialogs, dir_dialogs, conv, json>>

\* Event::SoftBreak => current_text.push(' ')
MdSoftBreak ==
    /\ md.pc = "run" /\ CanInline(Top(md.stack)) /\ Room(1)
    /\ md' = [md EXCEPT !.n = @ + 1, !.buf = Append(@, " ")]
    /\ UNCHANGED <<app, tasks, handled, file_dialogs, dir_dialogs, conv, json>>

\* Event::HardBreak => current_text.push('\n')
MdHardBreak ==
    /\ md.pc = "run" /\ CanInline(Top(md.stack)) /\ Room(1)
    /\ md' = [md EXCEPT !.n = @ + 1, !.buf = Append(@, "\n")]
    /\ UNCHANGED <<app, tasks, handled, file_dialogs, dir_dialogs, conv, json>>

\* Event::Code(text) => current_text.push_str(&format!(" {} ", text))
MdCode ==
    /\ md.pc = "run" /\ CanInline(Top(md.stack)) /\ Room(1)
    /\ md' = [md EXCEPT !.n = @ + 1,
                        !.buf = @ \o <<" ", TextNames[md.n + 1], " ">>]
    /\ UNCHANGED <<app, tasks, handled, file_dialogs, dir_dialogs, conv, json>>

\* Event::Start(tag): Paragraph, Heading and CodeBlock clear the buffer,
\* every other tag is ignored.
MdStart(tag) ==
    /\ md.pc = "run" /\ CanStart(Top(md.stack), tag) /\ Room(2)
    /\ md' = [md EXCEPT !.n = @ + 1,
                        !.stack = Append(@, tag),
                        !.buf = IF tag \in BlockTags THEN << >> ELSE @]
    /\ UNCHANGED <<app, tasks, handled, file_dialogs, dir_dialogs, conv, json>>

\* Event::End(tag) of the innermost open tag.
MdEnd ==
    /\ md.pc = "run" /\ md.stack # << >>
    /\ LET tag == Top(md.stack)
           emitted ==
               IF tag = "Paragraph"
                   THEN (IF md.buf # << >>
                             THEN <<Paragraph(md.buf, "default"), Break("0.5")>>
                             ELSE << >>)
               ELSE IF tag \in {"H1", "H2", "H3"}
                   THEN <<Paragraph(md.buf, HeadingStyle(tag)), Break("0.5")>>
               ELSE IF tag = "CodeBlock"
                   THEN ParagraphPerLine(Lines(md.buf), "size 10") \o <<Break("0.5")>>
               ELSE << >>
       IN md' = [md EXCEPT !.n = @ + 1,
                           !.stack = SubSeq(@, 1, Len(@) - 1),
                           !.doc = @ \o emitted,
                           !.buf = IF tag \in BlockTags THEN << >> ELSE @]
    /\ UNCHANGED <<app, tasks, handled, file_dialogs, dir_dialogs, conv, json>>

\* The end of the stream: a buffer that is not empty is emitted.
MdFinish ==
    /\ md.pc = "run" /\ md.stack = << >>
    /\ md' = [md EXCEPT !.pc = "done",
                        !.doc = IF md.buf # << >>
                                    THEN Append(@, Paragraph(md.buf, "default"))
                                    ELSE @]
    /\ UNCHANGED <<app, tasks, handled, file_dialogs, dir_dialogs, conv, json>>

MdNext ==
    \/ MdText
    \/ MdSoftBreak
    \/ MdHardBreak
    \/ MdCode
    \/ \E tag \in BlockTags \cup IgnoredTags : MdStart(tag)
    \/ MdEnd
    \/ MdFinish

MdSpec == MdInit /\ [][MdNext]_vars

\* The pieces of an emitted element.
Pieces(element) == {element.text[k] : k \in DOMAIN element.text}

\* C17: once the stream has ended, the content of every Text event is in
\* some emitted element, whatever construct wrapped it and whatever
\* paragraph, heading or code-block start followed it.
CE_C17_NoTextDropped ==
    md.pc = "done" =>
        \A x \in md.texts : \E k \in DOMAIN md.doc : x \in Pieces(md.doc[k])

====
